---- MODULE Spec2Model ----
(***************************************************************************)
(* Model of backend/main.py: the process-wide MCP proxy handle             *)
(* (start_mcp_client, shutdown_event), the tool resolution in              *)
(* initialize_agents and the per-connection streaming loop of              *)
(* websocket_endpoint.                                                     *)
(*                                                                         *)
(* All handlers are coroutines of one asyncio event loop, so a handler     *)
(* runs without interleaving between two awaits.  One action is one such   *)
(* stretch of code.  runner.run, get_weather and predict_stock_price are   *)
(* synchronous calls: a whole round, from the return of receive_json to    *)
(* the await of send_json, is one step.                                    *)
(***************************************************************************)
EXTENDS Integers, Sequences, FiniteSets, TLC

\* ---------------------------------------------------------------- bounds
\* Inbound messages the clients send, over all connections.
MaxMsgs == 2
\* Invocations of shutdown_event.
MaxShutdown == 2
\* Time units by which the clock advances in one step.
TickStep == 30

\* The argument of asyncio.sleep in the loop.
PacingInterval == 60

Conns == {"c1", "c2"}

\* ------------------------------------------------------- module-level names
\* Names bound in the module namespace of main.py by its import statements.
ImportedNames ==
    {"os", "asyncio", "uuid", "pd", "yf", "LinearRegression", "FastAPI",
     "WebSocket", "LlmAgent", "SequentialAgent", "FunctionTool", "Runner",
     "InMemorySessionService", "types", "requests", "datetime", "timedelta",
     "json", "StdioClient", "logging"}

\* os.environ["OPENWEATHER_API_KEY"] as set at import time.
OPENWEATHER_API_KEY == "your-openweather-api-key"

\* ------------------------------------------------------------ value domains
Absent == "absent"
Now == "YYYY-MM-DD HH:MM:SS"

\* What a client can put on the wire: text that is not JSON, and JSON
\* objects with or without the two fields.
Dicts ==
    {[k \in S |-> IF k = "ticker" THEN "IBM" ELSE "Paris"] :
        S \in {{}, {"ticker", "location"}}}
Messages ==
    {[kind |-> "not_json"]}
    \cup {[kind |-> "dict", data |-> d] : d \in Dicts}

\* Values of os.getenv("OPENWEATHER_API_KEY"): the variable unset, empty, or
\* holding the key; the first two are the ones `not api_key` is true of.
Credentials == {"None", "", OPENWEATHER_API_KEY}
Falsy == {"None", ""}

\* Arguments get_weather is called with.
Locations == {"Chicago", "Paris", ""}

\* What the weather service does with a request: requests.get raises,
\* raise_for_status raises, response.json() raises, the document lacks a
\* field the function reads, or the document is complete.
ExternalReplies ==
    {"conn_error", "http_error", "bad_json", "missing_field", "ok"}

\* Replies of the weather service and of the stock download.
WeatherReplies == {"ok", "http_error"}
StockReplies == {"data", "empty", "raise"}

\* What runner.run does: it raises, or it ends with or without a final text.
RunOutcomes == {"raise", "None", "final_text"}

\* dict.get(key, default)
Get(d, key, default) == IF key \in DOMAIN d THEN d[key] ELSE default

\* ------------------------------------------------------------------- state
VARIABLES
    max_open,       \* connections the server is given at the same time
    mcp_client,     \* the global handle: "None" or "client"
    proxyState,     \* state of the StdioClient process
    startup_pc,     \* position of startup_event: "init", "starting", "done"
    clientsCreated, \* StdioClient instances constructed
    stopCalls,      \* invocations of mcp_client.stop()
    shutdownCalls,  \* invocations of shutdown_event
    uuidCount,      \* uuid4 values drawn so far
    msgsSent,       \* inbound messages sent by clients so far
    pc,             \* position of each websocket_endpoint coroutine
    inbox,          \* messages queued by the transport, per connection
    disconnected,   \* the peer has gone away
    weather_tool,   \* tool bound by initialize_agents: "none", "local", "proxy"
    session_id,     \* local session_id (0 before it is assigned)
    user_id,        \* local user_id
    data, ticker, location, result, weather_data, prediction, response,
    e,              \* the exception bound in the running except clause
    exc,            \* the exception the current round's try body raised
    run_session,    \* session_id passed to runner.run in the current round
    run_outcome,    \* what runner.run did in the current round
    call_state,     \* proxy state in which the round invoked mcp_client.call
    weather_call,   \* get_weather invocation of the current round
    predict_call,   \* predict_stock_price invocation of the current round
    disc_reported,  \* the transport raised WebSocketDisconnect
    send_calls,     \* invocations of websocket.send_json
    last_sent,      \* kind of the last message handed to send_json
    closeCalls,     \* invocations of websocket.close()
    slept,          \* time units spent in the asyncio.sleep entered last
    env_key,        \* OPENWEATHER_API_KEY of a get_weather call on its own
    arg_location,   \* its argument
    ext_reply,      \* what the weather service does with its request
    main_out,       \* what main.py's get_weather did
    api_out         \* what api.py's get_weather did

gvars == <<max_open, mcp_client, proxyState, startup_pc, clientsCreated,
           stopCalls, shutdownCalls>>
lvars == <<data, ticker, location, result, weather_data, prediction,
           response>>
rvars == <<exc, run_session, run_outcome, call_state, weather_call,
           predict_call>>
svars == <<send_calls, last_sent>>
hvars == <<env_key, arg_location, ext_reply, main_out, api_out>>
vars == <<max_open, mcp_client, proxyState, startup_pc, clientsCreated,
          stopCalls, shutdownCalls, uuidCount, msgsSent, pc, inbox,
          disconnected, weather_tool, session_id, user_id, data, ticker,
          location, result, weather_data, prediction, response, e, exc,
          run_session, run_outcome, call_state, weather_call, predict_call,
          disc_reported, send_calls, last_sent, closeCalls, slept,
          env_key, arg_location, ext_reply, main_out, api_out>>

NoValue == [status |-> "unset"]
NoCall == [called |-> FALSE]

\* Everything but the load: the state after the module is imported.
Loaded ==
    /\ mcp_client = "None"
    /\ proxyState = "Disconnected"
    /\ startup_pc = "init"
    /\ clientsCreated = 0
    /\ stopCalls = 0
    /\ shutdownCalls = 0
    /\ uuidCount = 0
    /\ msgsSent = 0
    /\ pc = [c \in Conns |-> "idle"]
    /\ inbox = [c \in Conns |-> <<>>]
    /\ disconnected = [c \in Conns |-> FALSE]
    /\ weather_tool = [c \in Conns |-> "none"]
    /\ session_id = [c \in Conns |-> 0]
    /\ user_id = [c \in Conns |-> 0]
    /\ data = [c \in Conns |-> NoValue]
    /\ ticker = [c \in Conns |-> Absent]
    /\ location = [c \in Conns |-> Absent]
    /\ result = [c \in Conns |-> "None"]
    /\ weather_data = [c \in Conns |-> NoValue]
    /\ prediction = [c \in Conns |-> NoValue]
    /\ response = [c \in Conns |-> NoValue]
    /\ e = [c \in Conns |-> "none"]
    /\ exc = [c \in Conns |-> "none"]
    /\ run_session = [c \in Conns |-> 0]
    /\ run_outcome = [c \in Conns |-> "none"]
    /\ call_state = [c \in Conns |-> "none"]
    /\ weather_call = [c \in Conns |-> NoCall]
    /\ predict_call = [c \in Conns |-> NoCall]
    /\ disc_reported = [c \in Conns |-> FALSE]
    /\ send_calls = [c \in Conns |-> 0]
    /\ last_sent = [c \in Conns |-> NoValue]
    /\ closeCalls = [c \in Conns |-> 0]
    /\ slept = [c \in Conns |-> 0]

\* No get_weather call on its own is set up.
NoCallAlone ==
    /\ env_key = OPENWEATHER_API_KEY
    /\ arg_location = Absent
    /\ ext_reply = "ok"
    /\ main_out = NoValue
    /\ api_out = NoValue

\* Connections served one after the other.
Init == max_open = 1 /\ Loaded /\ NoCallAlone

\* Connections served side by side.
InitPair == max_open = Cardinality(Conns) /\ Loaded /\ NoCallAlone

\* No connection served: get_weather is to be called on its own, in main.py
\* and in api.py, for one credential, argument and reply of the service.
InitWeather ==
    /\ max_open = 0
    /\ Loaded
    /\ env_key \in Credentials
    /\ arg_location \in Locations
    /\ ext_reply \in ExternalReplies
    /\ main_out = NoValue
    /\ api_out = NoValue

\* ------------------------------------------------------ capability functions
MissingKey ==
    [status |-> "error", error_message |-> "Missing OpenWeatherMap API key"]

\* As get_weather_run, without the check of the credential.
get_weather_run_no_key_check(api_key, loc, reply) ==
    [requests |-> 1,
     ret |-> IF reply = "ok"
             THEN [status |-> "success", location |-> loc,
                   temperature |-> 20, humidity |-> 50]
             ELSE [status |-> "error",
                   error_message |-> "Failed to fetch weather"]]

\* A call of main.py's get_weather(location), given the credential and what
\* the service does: the requests it makes and what it returns.  Every
\* exception of the try body is caught and turned into an error result.
get_weather_run(api_key, loc, reply) ==
    IF api_key \in Falsy
    THEN [requests |-> 0, ret |-> MissingKey]
    ELSE [requests |-> 1,
          ret |-> IF reply = "ok"
                  THEN [status |-> "success", location |-> loc,
                        temperature |-> 20, humidity |-> 50]
                  ELSE [status |-> "error",
                        error_message |-> "Failed to fetch weather"]]

\* What get_weather(location) returns.
get_weather(api_key, loc, reply) == get_weather_run(api_key, loc, reply).ret

\* A call of api.py's get_weather(location), the function the MCP server
\* registers.
api_get_weather_run(api_key, loc, reply) ==
    IF api_key \in Falsy
    THEN [requests |-> 0,
          ret |-> [status |-> "error",
                   error_message |-> "Missing OpenWeatherMap API key"]]
    ELSE [requests |-> 1,
          ret |-> IF reply = "ok"
                  THEN [status |-> "success", location |-> loc,
                        temperature |-> 20, humidity |-> 50]
                  ELSE [status |-> "error",
                        error_message |-> "Failed to fetch weather"]]

\* predict_stock_price(ticker, weather_data), given the stock download.  The
\* regression's features are carried in the result in place of the price.
predict_stock_price(tkr, wd, stock) ==
    IF stock = "empty"
    THEN [status |-> "error", error_message |-> "No stock data"]
    ELSE IF stock = "raise"
         THEN [status |-> "error", error_message |-> "Prediction failed"]
         ELSE [status |-> "success", ticker |-> tkr,
               temperature |-> Get(wd, "temperature", 0),
               humidity |-> Get(wd, "humidity", 0)]

\* ------------------------------------------------------- proxy client handle
\* start_mcp_client up to the await of mcp_client.start(): the client is
\* constructed and assigned to the global, or the constructor raises.  The
\* startup hook runs once, before the server serves its first connection and
\* not after the shutdown hook.
StartBegin ==
    /\ startup_pc = "init"
    /\ shutdownCalls = 0
    /\ uuidCount = 0
    /\ \E ctorRaises \in BOOLEAN :
         IF ctorRaises
         THEN /\ mcp_client' = "None"
              /\ proxyState' = "Failed"
              /\ startup_pc' = "done"
              /\ UNCHANGED clientsCreated
         ELSE /\ mcp_client' = "client"
              /\ proxyState' = "Connecting"
              /\ startup_pc' = "starting"
              /\ clientsCreated' = clientsCreated + 1
    /\ UNCHANGED <<max_open, stopCalls, shutdownCalls, uuidCount, msgsSent,
                   pc, inbox, disconnected, weather_tool, session_id,
                   user_id, lvars, e, rvars, disc_reported, svars,
                   closeCalls, slept>>
    /\ UNCHANGED hvars

\* mcp_client.start() returns.
StartOk ==
    /\ startup_pc = "starting"
    /\ proxyState' = "Connected"
    /\ startup_pc' = "done"
    /\ UNCHANGED <<max_open, mcp_client, clientsCreated, stopCalls,
                   shutdownCalls, uuidCount, msgsSent, pc, inbox,
                   disconnected, weather_tool, session_id, user_id, lvars, e,
                   rvars, disc_reported, svars, closeCalls, slept>>
    /\ UNCHANGED hvars

\* As StartFail, without the except clause's reset of the global.
StartFail_keeps_handle ==
    /\ startup_pc = "starting"
    /\ proxyState' = "Failed"
    /\ startup_pc' = "done"
    /\ UNCHANGED <<max_open, mcp_client, clientsCreated, stopCalls,
                   shutdownCalls, uuidCount, msgsSent, pc, inbox,
                   disconnected, weather_tool, session_id, user_id, lvars, e,
                   rvars, disc_reported, svars, closeCalls, slept>>
    /\ UNCHANGED hvars

\* mcp_client.start() raises: the except clause resets the global.
StartFail ==
    /\ startup_pc = "starting"
    /\ mcp_client' = "None"
    /\ proxyState' = "Failed"
    /\ startup_pc' = "done"
    /\ UNCHANGED <<max_open, clientsCreated, stopCalls, shutdownCalls,
                   uuidCount, msgsSent, pc, inbox, disconnected, weather_tool,
                   session_id, user_id, lvars, e, rvars, disc_reported, svars,
                   closeCalls, slept>>
    /\ UNCHANGED hvars

\* shutdown_event: stops the client when the global is set.
ShutdownEvent ==
    /\ startup_pc # "starting"
    /\ shutdownCalls < MaxShutdown
    /\ shutdownCalls' = shutdownCalls + 1
    /\ IF mcp_client # "None"
       THEN /\ stopCalls' = stopCalls + 1
            /\ proxyState' = "Disconnected"
       ELSE UNCHANGED <<stopCalls, proxyState>>
    /\ UNCHANGED <<max_open, mcp_client, startup_pc, clientsCreated,
                   uuidCount, msgsSent, pc, inbox, disconnected, weather_tool,
                   session_id, user_id, lvars, e, rvars, disc_reported, svars,
                   closeCalls, slept>>
    /\ UNCHANGED hvars

\* The weather_tool choice of initialize_agents.
ResolveWeatherTool(client) == IF client = "None" THEN "local" ELSE "proxy"

\* --------------------------------------------------------------- the peers
\* A client sends one message; the transport queues it.
ClientSend(c) ==
    /\ pc[c] \notin {"idle", "done"}
    /\ ~disconnected[c]
    /\ msgsSent < MaxMsgs
    /\ \E m \in Messages : inbox' = [inbox EXCEPT ![c] = Append(@, m)]
    /\ msgsSent' = msgsSent + 1
    /\ UNCHANGED <<gvars, uuidCount, pc, disconnected,
                   weather_tool, session_id, user_id, lvars, e,
                   rvars, disc_reported, svars, closeCalls, slept>>
    /\ UNCHANGED hvars

\* A client goes away.
ClientDisconnect(c) ==
    /\ pc[c] \notin {"idle", "done"}
    /\ ~disconnected[c]
    /\ disconnected' = [disconnected EXCEPT ![c] = TRUE]
    /\ UNCHANGED <<gvars, uuidCount, msgsSent, pc, inbox,
                   weather_tool, session_id, user_id, lvars, e,
                   rvars, disc_reported, svars, closeCalls, slept>>
    /\ UNCHANGED hvars

\* ------------------------------------------------------- websocket_endpoint
\* The except clauses of the inner try, for an exception x raised in the
\* round.  Python evaluates the clause's expression first: a name that the
\* module never bound raises NameError out of the inner try statement.
ExceptClause(x) ==
    IF "WebSocketDisconnect" \notin ImportedNames
    THEN [to |-> "outer_except", e |-> "NameError"]
    ELSE IF x = "WebSocketDisconnect"
         THEN [to |-> "finally", e |-> "none"]
         ELSE [to |-> "inner_error", e |-> x]

\* As BuildResponse, preferring the orchestrator's final text when there is
\* one.
BuildResponse_prefers_result(res, wd, pred) ==
    [weather |-> wd,
     prediction |-> IF res = "None" THEN pred
                    ELSE [status |-> "success", text |-> res],
     timestamp |-> Now]

\* As BuildResponse, with a capability's error result sent as the message
\* itself.
BuildResponse_raises_failure(res, wd, pred) ==
    IF wd.status = "error" THEN wd
    ELSE IF pred.status = "error" THEN pred
    ELSE [weather |-> wd, prediction |-> pred, timestamp |-> Now]

\* The response body built in a round from the locals in scope.
BuildResponse(res, wd, pred) ==
    [weather |-> wd, prediction |-> pred, timestamp |-> Now]

ErrorMessage(x) == [status |-> "error", error_message |-> x]

\* An outbound message carries a capability's error result under one of its
\* keys.
CarriesFailure(msg) ==
    \E k \in DOMAIN msg \cap {"weather", "prediction"} :
        msg[k].status = "error"

\* Connections whose coroutine is running.
Open == {c \in Conns : pc[c] \notin {"idle", "done"}}

\* As uuid4, returning the same value at every draw.
uuid4_repeats(n) == 1

\* uuid.uuid4(), given the number of values drawn so far in the process: a
\* value drawn by no earlier call.
uuid4(n) == n + 1

\* await websocket.accept(), then the code up to the loop: ids, session,
\* agents, runner.  create_session may raise, before the agents are built.
\* The server serves no connection while the startup hook is running.
Accept(c) ==
    /\ pc[c] = "idle"
    /\ startup_pc # "starting"
    /\ Cardinality(Open) < max_open
    /\ user_id' = [user_id EXCEPT ![c] = uuid4(uuidCount)]
    /\ session_id' = [session_id EXCEPT ![c] = uuid4(uuidCount + 1)]
    /\ uuidCount' = uuidCount + 2
    /\ \E raises \in BOOLEAN :
         IF raises
         THEN /\ pc' = [pc EXCEPT ![c] = "outer_except"]
              /\ e' = [e EXCEPT ![c] = "SetupError"]
              /\ UNCHANGED weather_tool
         ELSE /\ weather_tool' = [weather_tool EXCEPT
                                    ![c] = ResolveWeatherTool(mcp_client)]
              /\ pc' = [pc EXCEPT ![c] = "recv"]
              /\ UNCHANGED e
    /\ UNCHANGED <<gvars, msgsSent, inbox, disconnected, lvars, rvars,
                   disc_reported, svars, closeCalls, slept>>
    /\ UNCHANGED hvars

\* As DirectStages, with the prediction made from the weather_data the
\* frame held before the round's get_weather result was assigned.
DirectStages_stale_weather(prev_wd, tkr, loc, reply, stock) ==
    LET wd == get_weather(OPENWEATHER_API_KEY, loc, reply)
    IN [weather_data |-> wd,
        predict_input |-> prev_wd,
        prediction |-> predict_stock_price(tkr, prev_wd, stock)]

\* The two direct calls of a round, in their order: get_weather(location)
\* is assigned to weather_data, then predict_stock_price(ticker,
\* weather_data) is called.  prev_wd is the weather_data the frame held
\* before.
DirectStages(prev_wd, tkr, loc, reply, stock) ==
    LET wd == get_weather(OPENWEATHER_API_KEY, loc, reply)
    IN [weather_data |-> wd,
        predict_input |-> wd,
        prediction |-> predict_stock_price(tkr, wd, stock)]

\* One round: receive_json returns a queued message, then the code up to the
\* await of send_json runs.  A round that raises leaves the loop's locals
\* dead (none is read before it is assigned again): they keep their unset
\* values.
ReceiveJson(c) ==
    /\ pc[c] = "recv"
    /\ inbox[c] # <<>>
    /\ inbox' = [inbox EXCEPT ![c] = Tail(@)]
    /\ LET m == Head(inbox[c])
       IN
       IF m.kind # "dict"
       THEN \* receive_json raises on text that is not JSON
            LET h == ExceptClause("JSONDecodeError")
            IN /\ pc' = [pc EXCEPT ![c] = h.to]
               /\ e' = [e EXCEPT ![c] = h.e]
               /\ exc' = [exc EXCEPT ![c] = "JSONDecodeError"]
               /\ run_outcome' = [run_outcome EXCEPT ![c] = "none"]
               /\ weather_call' = [weather_call EXCEPT ![c] = NoCall]
               /\ predict_call' = [predict_call EXCEPT ![c] = NoCall]
               /\ UNCHANGED <<lvars, run_session, call_state>>
       ELSE
         \E run \in RunOutcomes, useTool \in BOOLEAN :
           LET tkr == Get(m.data, "ticker", "ADM")
               loc == Get(m.data, "location", "Chicago")
           IN
           /\ run_session' = [run_session EXCEPT ![c] = session_id[c]]
           /\ run_outcome' = [run_outcome EXCEPT ![c] = run]
           /\ call_state' = [call_state EXCEPT ![c] =
                                IF useTool /\ weather_tool[c] = "proxy"
                                THEN proxyState ELSE "none"]
           /\ IF run = "raise"
              THEN LET h == ExceptClause("RunError")
                   IN /\ result' = [result EXCEPT ![c] = "None"]
                      /\ pc' = [pc EXCEPT ![c] = h.to]
                      /\ e' = [e EXCEPT ![c] = h.e]
                      /\ exc' = [exc EXCEPT ![c] = "RunError"]
                      /\ weather_call' = [weather_call EXCEPT ![c] = NoCall]
                      /\ predict_call' = [predict_call EXCEPT ![c] = NoCall]
                      /\ UNCHANGED <<data, ticker, location, weather_data,
                                     prediction, response>>
              ELSE \E reply \in WeatherReplies, stock \in StockReplies :
                   LET st == DirectStages(weather_data[c], tkr, loc, reply,
                                          stock)
                       wd == st.weather_data
                       pred == st.prediction
                   IN /\ data' = [data EXCEPT ![c] = m.data]
                      /\ ticker' = [ticker EXCEPT ![c] = tkr]
                      /\ location' = [location EXCEPT ![c] = loc]
                      /\ result' = [result EXCEPT ![c] = run]
                      /\ weather_data' = [weather_data EXCEPT ![c] = wd]
                      /\ prediction' = [prediction EXCEPT ![c] = pred]
                      /\ response' = [response EXCEPT
                                        ![c] = BuildResponse(run, wd, pred)]
                      /\ pc' = [pc EXCEPT ![c] = "send"]
                      /\ exc' = [exc EXCEPT ![c] = "none"]
                      /\ weather_call' = [weather_call EXCEPT ![c] =
                             [called |-> TRUE, location |-> loc, res |-> wd]]
                      /\ predict_call' = [predict_call EXCEPT ![c] =
                             [called |-> TRUE, ticker |-> tkr,
                              weather |-> st.predict_input, res |-> pred]]
                      /\ UNCHANGED e
    /\ UNCHANGED <<gvars, uuidCount, msgsSent, disconnected, weather_tool,
                   session_id, user_id, disc_reported, svars,
                   closeCalls, slept>>
    /\ UNCHANGED hvars

\* As ReceiveDisconnect, with the global handle dropped when a peer is found
\* gone.
ReceiveDisconnect_drops_handle(c) ==
    /\ pc[c] = "recv"
    /\ inbox[c] = <<>>
    /\ disconnected[c]
    /\ LET h == ExceptClause("WebSocketDisconnect")
       IN /\ pc' = [pc EXCEPT ![c] = h.to]
          /\ e' = [e EXCEPT ![c] = h.e]
    /\ exc' = [exc EXCEPT ![c] = "WebSocketDisconnect"]
    /\ disc_reported' = [disc_reported EXCEPT ![c] = TRUE]
    /\ mcp_client' = "None"
    /\ UNCHANGED <<max_open, proxyState, startup_pc, clientsCreated,
                   stopCalls, shutdownCalls, uuidCount, msgsSent, inbox,
                   disconnected, weather_tool, session_id,
                   user_id, lvars, run_session, run_outcome, call_state,
                   weather_call, predict_call, svars, closeCalls, slept>>
    /\ UNCHANGED hvars

\* receive_json finds the peer gone: it raises WebSocketDisconnect.
ReceiveDisconnect(c) ==
    /\ pc[c] = "recv"
    /\ inbox[c] = <<>>
    /\ disconnected[c]
    /\ LET h == ExceptClause("WebSocketDisconnect")
       IN /\ pc' = [pc EXCEPT ![c] = h.to]
          /\ e' = [e EXCEPT ![c] = h.e]
    /\ exc' = [exc EXCEPT ![c] = "WebSocketDisconnect"]
    /\ disc_reported' = [disc_reported EXCEPT ![c] = TRUE]
    /\ UNCHANGED <<gvars, uuidCount, msgsSent, inbox,
                   disconnected, weather_tool, session_id,
                   user_id, lvars, run_session, run_outcome, call_state,
                   weather_call, predict_call, svars, closeCalls, slept>>
    /\ UNCHANGED hvars

\* The locals of a round once its response is handed to send_json.  Every
\* one of them is assigned again (lines 160-179) before the loop reads it,
\* so the values of a finished round are dead and are not kept.
Unset(f, c) == [f EXCEPT ![c] = NoValue]

\* await websocket.send_json(...) at its three call sites: the round's
\* response, the inner handler's error and the outer handler's error.  On a
\* transport whose peer is gone the call raises or the message is dropped.
SendJson(c) ==
    /\ pc[c] \in {"send", "inner_error", "outer_except"}
    /\ LET msg == IF pc[c] = "send" THEN response[c] ELSE ErrorMessage(e[c])
           after == CASE pc[c] = "send" -> "sleep"
                      [] pc[c] = "inner_error" -> "recv"
                      [] pc[c] = "outer_except" -> "finally"
       IN
       \E raises \in {FALSE, disconnected[c]} :
         /\ send_calls' = [send_calls EXCEPT ![c] = @ + 1]
         /\ last_sent' = [last_sent EXCEPT ![c] =
                            [status |-> Get(msg, "status", "response"),
                             failure |-> CarriesFailure(msg),
                             delivered |-> ~disconnected[c]]]
         /\ disc_reported' = [disc_reported EXCEPT ![c] = @ \/ raises]
         /\ IF ~raises
            THEN /\ pc' = [pc EXCEPT ![c] = after]
                 /\ UNCHANGED <<e, exc>>
            ELSE IF pc[c] = "send"
                 THEN LET h == ExceptClause("WebSocketDisconnect")
                      IN /\ pc' = [pc EXCEPT ![c] = h.to]
                         /\ e' = [e EXCEPT ![c] = h.e]
                         /\ exc' = [exc EXCEPT ![c] = "WebSocketDisconnect"]
                 ELSE IF pc[c] = "inner_error"
                      THEN /\ pc' = [pc EXCEPT ![c] = "outer_except"]
                           /\ e' = [e EXCEPT ![c] = "WebSocketDisconnect"]
                           /\ UNCHANGED exc
                      ELSE /\ pc' = [pc EXCEPT ![c] = "finally"]
                           /\ e' = [e EXCEPT ![c] = "WebSocketDisconnect"]
                           /\ UNCHANGED exc
    /\ IF pc[c] = "send"
       THEN /\ data' = Unset(data, c)
            /\ weather_data' = Unset(weather_data, c)
            /\ prediction' = Unset(prediction, c)
            /\ response' = Unset(response, c)
            /\ ticker' = [ticker EXCEPT ![c] = Absent]
            /\ location' = [location EXCEPT ![c] = Absent]
            /\ result' = [result EXCEPT ![c] = "None"]
            /\ run_outcome' = [run_outcome EXCEPT ![c] = "none"]
            /\ call_state' = [call_state EXCEPT ![c] = "none"]
            /\ weather_call' = [weather_call EXCEPT ![c] = NoCall]
            /\ predict_call' = [predict_call EXCEPT ![c] = NoCall]
            /\ slept' = [slept EXCEPT ![c] = 0]
            /\ UNCHANGED run_session
       ELSE UNCHANGED <<lvars, run_session, run_outcome, call_state,
                        weather_call, predict_call, slept>>
    /\ UNCHANGED <<gvars, uuidCount, msgsSent, inbox,
                   disconnected, weather_tool, session_id,
                   user_id, closeCalls>>
    /\ UNCHANGED hvars

\* The clock advances while a coroutine is in asyncio.sleep: the time each
\* sleeping coroutine has slept grows, counted up to the interval.
Tick ==
    /\ \E c \in Conns : pc[c] = "sleep" /\ slept[c] < PacingInterval
    /\ slept' = [c \in Conns |->
                   IF pc[c] # "sleep" THEN slept[c]
                   ELSE IF slept[c] + TickStep < PacingInterval
                        THEN slept[c] + TickStep
                        ELSE PacingInterval]
    /\ UNCHANGED <<gvars, uuidCount, msgsSent, pc, inbox, disconnected,
                   weather_tool, session_id, user_id, lvars, e, rvars,
                   disc_reported, svars, closeCalls>>
    /\ UNCHANGED hvars

\* As Wake, with the sleep returning at any time.
Wake_before_interval(c) ==
    /\ pc[c] = "sleep"
    /\ pc' = [pc EXCEPT ![c] = "recv"]
    /\ UNCHANGED <<gvars, uuidCount, msgsSent, inbox,
                   disconnected, weather_tool, session_id,
                   user_id, lvars, e, rvars, disc_reported, svars,
                   closeCalls, slept>>
    /\ UNCHANGED hvars

\* await asyncio.sleep(60) returns, the interval over, and the loop goes
\* back to receive_json.
Wake(c) ==
    /\ pc[c] = "sleep"
    /\ slept[c] = PacingInterval
    /\ pc' = [pc EXCEPT ![c] = "recv"]
    /\ UNCHANGED <<gvars, uuidCount, msgsSent, inbox,
                   disconnected, weather_tool, session_id,
                   user_id, lvars, e, rvars, disc_reported, svars,
                   closeCalls, slept>>
    /\ UNCHANGED hvars

\* As Close, the coroutine returning without the call of websocket.close().
Close_returns_unclosed(c) ==
    /\ pc[c] = "finally"
    /\ UNCHANGED closeCalls
    /\ pc' = [pc EXCEPT ![c] = "done"]
    /\ inbox' = [inbox EXCEPT ![c] = <<>>]
    /\ disconnected' = [disconnected EXCEPT ![c] = TRUE]
    /\ weather_tool' = [weather_tool EXCEPT ![c] = "none"]
    /\ session_id' = [session_id EXCEPT ![c] = 0]
    /\ user_id' = [user_id EXCEPT ![c] = 0]
    /\ data' = Unset(data, c)
    /\ weather_data' = Unset(weather_data, c)
    /\ prediction' = Unset(prediction, c)
    /\ response' = Unset(response, c)
    /\ ticker' = [ticker EXCEPT ![c] = Absent]
    /\ location' = [location EXCEPT ![c] = Absent]
    /\ result' = [result EXCEPT ![c] = "None"]
    /\ e' = [e EXCEPT ![c] = "none"]
    /\ exc' = [exc EXCEPT ![c] = "none"]
    /\ run_session' = [run_session EXCEPT ![c] = 0]
    /\ run_outcome' = [run_outcome EXCEPT ![c] = "none"]
    /\ call_state' = [call_state EXCEPT ![c] = "none"]
    /\ weather_call' = [weather_call EXCEPT ![c] = NoCall]
    /\ predict_call' = [predict_call EXCEPT ![c] = NoCall]
    /\ slept' = [slept EXCEPT ![c] = 0]
    /\ UNCHANGED <<gvars, uuidCount, msgsSent, disc_reported, svars>>
    /\ UNCHANGED hvars

\* finally: await websocket.close(), after which the coroutine returns.
\* Closing drops what the transport still queued and ends the peer's
\* connection; the frame's locals go with the coroutine.
Close(c) ==
    /\ pc[c] = "finally"
    /\ closeCalls' = [closeCalls EXCEPT ![c] = @ + 1]
    /\ pc' = [pc EXCEPT ![c] = "done"]
    /\ inbox' = [inbox EXCEPT ![c] = <<>>]
    /\ disconnected' = [disconnected EXCEPT ![c] = TRUE]
    /\ weather_tool' = [weather_tool EXCEPT ![c] = "none"]
    /\ session_id' = [session_id EXCEPT ![c] = 0]
    /\ user_id' = [user_id EXCEPT ![c] = 0]
    /\ data' = Unset(data, c)
    /\ weather_data' = Unset(weather_data, c)
    /\ prediction' = Unset(prediction, c)
    /\ response' = Unset(response, c)
    /\ ticker' = [ticker EXCEPT ![c] = Absent]
    /\ location' = [location EXCEPT ![c] = Absent]
    /\ result' = [result EXCEPT ![c] = "None"]
    /\ e' = [e EXCEPT ![c] = "none"]
    /\ exc' = [exc EXCEPT ![c] = "none"]
    /\ run_session' = [run_session EXCEPT ![c] = 0]
    /\ run_outcome' = [run_outcome EXCEPT ![c] = "none"]
    /\ call_state' = [call_state EXCEPT ![c] = "none"]
    /\ weather_call' = [weather_call EXCEPT ![c] = NoCall]
    /\ predict_call' = [predict_call EXCEPT ![c] = NoCall]
    /\ slept' = [slept EXCEPT ![c] = 0]
    /\ UNCHANGED <<gvars, uuidCount, msgsSent, disc_reported, svars>>
    /\ UNCHANGED hvars

Next ==
    \/ StartBegin
    \/ StartOk
    \/ StartFail
    \/ ShutdownEvent
    \/ \E c \in Conns : ClientSend(c)
    \/ \E c \in Conns : ClientDisconnect(c)
    \/ \E c \in Conns : Accept(c)
    \/ \E c \in Conns : ReceiveJson(c)
    \/ \E c \in Conns : ReceiveDisconnect(c)
    \/ \E c \in Conns : SendJson(c)
    \/ Tick
    \/ \E c \in Conns : Wake(c)
    \/ \E c \in Conns : Close(c)

\* get_weather of main.py is called on its own.
CallMain ==
    /\ max_open = 0
    /\ main_out = NoValue
    /\ main_out' = get_weather_run(env_key, arg_location, ext_reply)
    /\ UNCHANGED <<gvars, uuidCount, msgsSent, pc, inbox, disconnected,
                   weather_tool, session_id, user_id, lvars, e, rvars,
                   disc_reported, svars, closeCalls, slept, env_key,
                   arg_location, ext_reply, api_out>>

\* get_weather of api.py is called on its own.
CallApi ==
    /\ max_open = 0
    /\ api_out = NoValue
    /\ api_out' = api_get_weather_run(env_key, arg_location, ext_reply)
    /\ UNCHANGED <<gvars, uuidCount, msgsSent, pc, inbox, disconnected,
                   weather_tool, session_id, user_id, lvars, e, rvars,
                   disc_reported, svars, closeCalls, slept, env_key,
                   arg_location, ext_reply, main_out>>

NextWeather == CallMain \/ CallApi

Spec == Init /\ [][Next]_vars

SpecPair == InitPair /\ [][Next]_vars

SpecWeather == InitWeather /\ [][NextWeather]_vars

\* ------------------------------------------------------------------ claims
InLoop == {"recv", "send", "sleep", "inner_error"}

\* C1: a round that fails for a reason other than a disconnect (a malformed
\* message, an exception of the pipeline) is answered with one error message
\* and the connection stays in its loop, back to reading.  Stated on the
\* control position: a coroutine whose round raised such an exception is
\* still in the loop.
C1_RoundErrorKeepsLoop ==
    \A c \in Conns :
        exc[c] \in {"JSONDecodeError", "RunError"} => pc[c] \in InLoop

\* C2: once the transport has reported the disconnect, the coroutine sends
\* nothing more on the connection and is never again in its loop (no read,
\* no pipeline run, no restart).
C2_NothingAfterDisconnect ==
    [][\A c \in Conns :
          disc_reported[c] =>
              /\ send_calls'[c] = send_calls[c]
              /\ pc'[c] \notin InLoop]_vars

\* C3: on a connection whose inbound messages are all valid and whose peer
\* has not disconnected, every message read is answered in turn and the
\* server does not close the connection.  Stated on the control position:
\* the coroutine of such a connection, once set up, does not leave its loop.
C3_ValidMessagesKeepLoop ==
    \A c \in Conns :
        (/\ pc[c] \in {"outer_except", "finally"}
         /\ e[c] # "SetupError"
         /\ exc[c] # "JSONDecodeError")
        => disconnected[c]

C5_FallbackAfterPipelineFailure ==
    \A c \in Conns :
        run_outcome[c] = "raise" =>
            /\ weather_call[c].called
            /\ predict_call[c].called
            /\ pc[c] = "send"

\* C6: whenever the agents of a connection are built while the proxy is not
\* Connected, the weather tool is the local get_weather.
C6_LocalUnlessConnected ==
    [][\A c \in Conns :
          (pc[c] = "idle" /\ pc'[c] = "recv" /\ proxyState # "Connected")
          => weather_tool'[c] = "local"]_vars

\* C7: mcp_client.call is invoked only while the proxy is Connected.
C7_CallOnlyWhenConnected ==
    \A c \in Conns : call_state[c] \in {"none", "Connected"}

\* C8: shutdown_event does nothing when the client was never started or
\* failed to start; invoked again after a successful start it stops the
\* client at most once and leaves the proxy Disconnected.
C8_StopAtMostOnce ==
    /\ mcp_client = "None" => stopCalls = 0
    /\ stopCalls <= 1
    /\ (shutdownCalls > 0 /\ mcp_client # "None") => proxyState = "Disconnected"

\* C9: after a failed start the process keeps running with the global handle
\* None for good: the proxy stays Failed, no client is constructed again, and
\* every connection served from then on has the local get_weather as its
\* weather tool.
C9_FailedStartMeansLocal ==
    /\ [](proxyState = "Failed" =>
            /\ mcp_client = "None"
            /\ startup_pc = "done"
            /\ \A c \in Conns : weather_tool[c] \in {"none", "local"})
    /\ [][proxyState = "Failed" =>
            /\ proxyState' = "Failed"
            /\ clientsCreated' = clientsCreated
            /\ \A c \in Conns :
                 (pc[c] = "idle" /\ pc'[c] = "recv")
                 => weather_tool'[c] = "local"]_vars

\* A connection accepted after mcp_client.start() raised is in a round, with
\* the local tool.
C9_Witness ==
    /\ proxyState = "Failed"
    /\ clientsCreated = 1
    /\ \E c \in Conns : pc[c] = "send" /\ weather_tool[c] = "local"

\* C10: a round whose weather result is a Failure does not invoke
\* predict_stock_price.
C10_NoPredictAfterWeatherFailure ==
    \A c \in Conns :
        (weather_call[c].called /\ weather_call[c].res.status = "error")
        => ~predict_call[c].called

\* C11: in a round the weather stage is done before the predict stage
\* starts: predict_stock_price is called with the get_weather result of the
\* same round, made for that round's location, and with that round's ticker;
\* the frame's weather_data is that result and nothing left over.
C11_PredictUsesThisRoundsWeather ==
    \A c \in Conns :
        predict_call[c].called =>
            /\ weather_call[c].called
            /\ weather_call[c].location = location[c]
            /\ location[c] = Get(data[c], "location", "Chicago")
            /\ predict_call[c].ticker = ticker[c]
            /\ predict_call[c].weather = weather_call[c].res
            /\ weather_data[c] = weather_call[c].res
            /\ (weather_call[c].res.status = "success"
                => /\ weather_call[c].res.location = location[c]
                   /\ prediction[c].status = "success"
                      => prediction[c].temperature
                           = weather_call[c].res.temperature)

\* A second round on a connection, for another location than the defaults,
\* has made both calls with a successful weather result.
C11_Witness ==
    \E c \in Conns :
        /\ send_calls[c] >= 1
        /\ pc[c] = "send"
        /\ location[c] = "Paris"
        /\ weather_call[c].res.status = "success"
        /\ prediction[c].status = "success"

\* C12: a connection gets its user_id and session_id once, when it is
\* accepted and before its first round, and keeps them until its coroutine
\* ends; every round passes that session_id to runner.run; two connections
\* open at the same time have different session_ids and user_ids.
C12_OneSessionPerConnection ==
    /\ [](\A c \in Conns :
            /\ run_session[c] # 0 => run_session[c] = session_id[c]
            /\ c \in Open => (session_id[c] # 0 /\ user_id[c] # 0)
            /\ \A d \in Open \ {c} :
                 c \in Open => /\ session_id[c] # session_id[d]
                               /\ user_id[c] # user_id[d])
    /\ [][\A c \in Conns :
            /\ (session_id'[c] # session_id[c] \/ user_id'[c] # user_id[c])
               => (pc[c] = "idle" \/ pc'[c] = "done")
            /\ (pc[c] = "recv" /\ run_outcome'[c] # "none")
               => run_session'[c] = session_id[c]]_vars

\* A connection is in its second round, run with its own session, while
\* another connection is open with a session of its own.
C12_Witness ==
    \E c \in Conns, d \in Conns :
        /\ c # d
        /\ pc[c] = "send"
        /\ send_calls[c] >= 1
        /\ run_session[c] = session_id[c]
        /\ pc[d] \in InLoop
        /\ session_id[d] # 0

\* C13: a round whose get_weather or predict_stock_price returned an error
\* result raises nothing: it builds the {weather, prediction, timestamp}
\* response with the error result inside and hands it to send_json, no
\* top-level error message is sent for it, and with the peer connected the
\* coroutine goes on to its sleep, the connection not closed.
C13_FailureInsideEnvelope ==
    /\ [](\A c \in Conns :
            (/\ weather_call[c].called
             /\ "error" \in {weather_call[c].res.status,
                             predict_call[c].res.status})
            => /\ pc[c] = "send"
               /\ exc[c] = "none"
               /\ predict_call[c].called
               /\ DOMAIN response[c] = {"weather", "prediction", "timestamp"}
               /\ response[c].weather = weather_call[c].res
               /\ response[c].prediction = predict_call[c].res
               /\ CarriesFailure(response[c]))
    /\ [][\A c \in Conns :
            (/\ pc[c] = "send"
             /\ CarriesFailure(response[c])
             /\ pc'[c] # pc[c])
            => /\ send_calls'[c] = send_calls[c] + 1
               /\ last_sent'[c].status = "response"
               /\ last_sent'[c].failure
               /\ closeCalls'[c] = closeCalls[c]
               /\ ~disconnected[c] => pc'[c] = "sleep"]_vars

\* A response with an error result inside was delivered and the coroutine is
\* in its sleep, the connection open.
C13_Witness ==
    \E c \in Conns :
        /\ pc[c] = "sleep"
        /\ last_sent[c].status = "response"
        /\ last_sent[c].failure
        /\ last_sent[c].delivered
        /\ closeCalls[c] = 0

\* C14: the global handle and the proxy state change only in steps of the
\* startup and shutdown hooks; a step of a connection's coroutine, and the
\* disconnect of its peer, change neither of them and nothing of any other
\* connection (its position, tool, session, queue, peer, sends, close).
C14_ConnectionStepsLeaveProxyAlone ==
    /\ [][/\ mcp_client' # mcp_client => startup_pc' # startup_pc
          /\ proxyState' # proxyState
             => (startup_pc' # startup_pc
                 \/ shutdownCalls' # shutdownCalls)]_vars
    /\ [][\A c \in Conns :
            (pc'[c] # pc[c] \/ disconnected'[c] # disconnected[c])
            => /\ mcp_client' = mcp_client
               /\ proxyState' = proxyState
               /\ clientsCreated' = clientsCreated
               /\ stopCalls' = stopCalls
               /\ \A d \in Conns \ {c} :
                    /\ pc'[d] = pc[d]
                    /\ weather_tool'[d] = weather_tool[d]
                    /\ session_id'[d] = session_id[d]
                    /\ user_id'[d] = user_id[d]
                    /\ inbox'[d] = inbox[d]
                    /\ disconnected'[d] = disconnected[d]
                    /\ send_calls'[d] = send_calls[d]
                    /\ last_sent'[d] = last_sent[d]
                    /\ closeCalls'[d] = closeCalls[d]
                    /\ e'[d] = e[d]]_vars

\* One connection ended on its peer's disconnect and was closed; the proxy
\* is still Connected and another connection, bound to it, has answered a
\* round and is in its loop.
C14_Witness ==
    \E c \in Conns, d \in Conns :
        /\ c # d
        /\ pc[c] = "done"
        /\ disc_reported[c]
        /\ mcp_client = "client"
        /\ proxyState = "Connected"
        /\ weather_tool[d] = "proxy"
        /\ pc[d] = "sleep"
        /\ last_sent[d].status = "response"
        /\ last_sent[d].delivered

\* C15: the proxy state changes only along Disconnected -> Connecting ->
\* Connected or Failed, and Connected -> Disconnected (a constructor that
\* raises takes the startup attempt from Disconnected to Failed in one
\* step); Failed is never left; at most one StdioClient is constructed; the
\* global handle is set only while the state is Connecting or Connected.
C15_ProxyLifecycle ==
    /\ [](/\ clientsCreated <= 1
          /\ mcp_client # "None"
             => proxyState \in {"Connecting", "Connected"})
    /\ [][/\ proxyState' # proxyState
             => <<proxyState, proxyState'>> \in
                  {<<"Disconnected", "Connecting">>,
                   <<"Disconnected", "Failed">>,
                   <<"Connecting", "Connected">>,
                   <<"Connecting", "Failed">>,
                   <<"Connected", "Disconnected">>}
          /\ proxyState = "Failed" => proxyState' = "Failed"]_vars

\* C16: after a response is handed to send_json the coroutine sleeps the
\* whole PacingInterval before it reads again: a read, and so the next
\* response, on a connection that has sent a response comes only with the
\* interval slept in full, and while the interval runs the coroutine stays
\* in its sleep and the messages that arrive are kept in the queue, in their
\* order, none removed.
C16_FullIntervalBetweenRounds ==
    /\ [](\A c \in Conns :
            /\ slept[c] \in 0..PacingInterval
            /\ (pc[c] \in {"recv", "send"} /\ send_calls[c] >= 1)
               => /\ last_sent[c].status = "response"
                  /\ slept[c] = PacingInterval)
    /\ [][\A c \in Conns :
            /\ (pc[c] = "sleep" /\ slept[c] < PacingInterval)
               => /\ pc'[c] = "sleep"
                  /\ Len(inbox'[c]) >= Len(inbox[c])
                  /\ SubSeq(inbox'[c], 1, Len(inbox[c])) = inbox[c]
                  /\ send_calls'[c] = send_calls[c]
            /\ (pc[c] = "sleep" /\ pc'[c] # "sleep")
               => /\ pc'[c] = "recv"
                  /\ slept[c] = PacingInterval
                  /\ inbox'[c] = inbox[c]
            /\ (pc[c] = "send" /\ pc'[c] = "sleep") => slept'[c] = 0]_vars

\* A connection that answered a round has slept the interval in full and
\* is in its second round.
C16_Witness ==
    \E c \in Conns :
        /\ pc[c] = "send"
        /\ send_calls[c] = 1
        /\ last_sent[c].delivered
        /\ slept[c] = PacingInterval
        /\ msgsSent = 2

\* What a finished call of get_weather left, against the credential, the
\* argument and the service's reply it was made with.
TaggedOutcome(out) ==
    out # NoValue =>
        /\ out.ret.status \in {"success", "error"}
        /\ out.ret.status = "error"
           => DOMAIN out.ret = {"status", "error_message"}
        /\ env_key \in Falsy => (out.requests = 0 /\ out.ret = MissingKey)
        /\ (env_key \notin Falsy /\ ext_reply # "ok")
           => (out.ret.status = "error" /\ out.ret # MissingKey)
        /\ (env_key \notin Falsy /\ ext_reply = "ok")
           => /\ out.ret.status = "success"
              /\ out.ret.location = arg_location
              /\ out.requests = 1

\* C17: a call of get_weather returns a map with status "success" or
\* "error", whatever the credential, the argument and the service's reply:
\* with the credential unset or empty it makes no request and returns
\* exactly the missing-key error; with a credential and a request or a reply
\* that fails it returns an error with a message; with a credential and a
\* complete reply it returns a success for the location asked.  The copies
\* of main.py and api.py return the same for the same credential and reply.
C17_GetWeatherTagged ==
    /\ TaggedOutcome(main_out)
    /\ TaggedOutcome(api_out)
    /\ (main_out # NoValue /\ api_out # NoValue) => main_out = api_out

\* Both copies were called with the credential unset and a service that
\* would have answered.
C17_Witness ==
    /\ env_key = "None"
    /\ ext_reply = "ok"
    /\ main_out # NoValue
    /\ api_out # NoValue
    /\ main_out.ret = MissingKey

\* C18: a coroutine that has ended has called websocket.close() once, and
\* one that has not ended has not called it; the coroutine ends by no other
\* step than that call, made from the finally clause, whatever brought it
\* there; after the call nothing is sent on the connection and the coroutine
\* does not run again.
C18_ClosedOnceOnExit ==
    /\ [](\A c \in Conns :
            /\ closeCalls[c] <= 1
            /\ pc[c] = "done" <=> closeCalls[c] = 1)
    /\ [][\A c \in Conns :
            /\ (pc'[c] = "done" /\ pc[c] # "done")
               => /\ pc[c] = "finally"
                  /\ closeCalls'[c] = closeCalls[c] + 1
            /\ (pc[c] = "finally" /\ pc'[c] # "finally") => pc'[c] = "done"
            /\ closeCalls[c] >= 1
               => /\ send_calls'[c] = send_calls[c]
                  /\ last_sent'[c] = last_sent[c]
                  /\ pc'[c] = "done"]_vars

\* A connection whose peer went away was closed after the send of the error
\* message failed on it.
C18_Witness ==
    \E c \in Conns :
        /\ pc[c] = "done"
        /\ closeCalls[c] = 1
        /\ disc_reported[c]
        /\ send_calls[c] >= 1
        /\ last_sent[c].status = "error"
        /\ ~last_sent[c].delivered

====
